---- MODULE Spec2Model ----
(***************************************************************************)
(* Bee Store API (src/main.py): the product and order endpoints over a     *)
(* document store.  Each request runs in its own worker thread, so a       *)
(* handler is a sequence of steps, one per store access, and the steps of  *)
(* different requests interleave.                                          *)
(*                                                                         *)
(* Spec is the interleaved system over a store that accepts every write.   *)
(* SeqSpec is the system with one request in flight at a time, over a      *)
(* store that may refuse any write.                                        *)
(***************************************************************************)
EXTENDS Integers, Sequences, FiniteSets

VARIABLES dbConfigured, store, nextOid, req

vars == <<dbConfigured, store, nextOid, req>>

(* ------------------------------ bounds --------------------------------- *)

\* Number of requests the clients send in one behaviour.
MaxReqs == 2

\* Longest items list of an order the clients send.
MaxItems == 2

\* Number of create_order requests among them.
MaxOrders == 1

Reqs == 1..MaxReqs

(* ------------------------- store identifiers --------------------------- *)

\* A bson ObjectId prints as 24 hexadecimal characters.
OidLen == 24

HexDigits == <<"0", "1", "2", "3", "4", "5", "6", "7",
               "8", "9", "a", "b", "c", "d", "e", "f">>

HexValue(c) == (CHOOSE k \in 1..16 : HexDigits[k] = c) - 1

IsHex(c) == \E k \in 1..16 : HexDigits[k] = c

\* n shifted right by p hexadecimal digits.
RECURSIVE ShiftHex(_, _)
ShiftHex(n, p) == IF p = 0 \/ n = 0 THEN n ELSE ShiftHex(n \div 16, p - 1)

\* n as len hexadecimal digits, most significant first.
ToHex(n, len) == [k \in 1..len |-> HexDigits[(ShiftHex(n, len - k) % 16) + 1]]

\* The number the first k digits of s spell.
RECURSIVE FromHexAt(_, _)
FromHexAt(s, k) == IF k = 0 THEN 0 ELSE 16 * FromHexAt(s, k - 1) + HexValue(s[k])

FromHex(s) == FromHexAt(s, Len(s))

\* str(oid): the string form of an identifier (main.py:75, and the id that
\* create_document returns).
StrOfObjectId(oid) == ToHex(oid, OidLen)

\* ObjectId(s): raises InvalidId unless s is 24 hexadecimal characters.
ObjectIdValid(s) == Len(s) = OidLen /\ \A k \in 1..Len(s) : IsHex(s[k])

ObjectId(s) == FromHex(s)

(* ------------------------------ payloads ------------------------------- *)

\* The four entries of the hardcoded catalog of seed_products.
ItalianNucleus ==
    [name |-> "Italian Honey Bees (Nucleus)",
     species |-> "Apis mellifera ligustica",
     description |-> "Gentle temperament, great honey production. 5-frame nuc with marked queen.",
     price |-> 185,
     image |-> "https://images.unsplash.com/photo-1506703719100-a0f3a48c0f86?q=80&w=1200&auto=format&fit=crop",
     in_stock |-> TRUE]

CarniolanPackage ==
    [name |-> "Carniolan Package Bees",
     species |-> "Apis mellifera carnica",
     description |-> "Fast spring buildup and overwintering success. 3 lb package with mated queen.",
     price |-> 165,
     image |-> "https://images.unsplash.com/photo-1470115636492-6d2b56f9146e?q=80&w=1200&auto=format&fit=crop",
     in_stock |-> TRUE]

SaskatrazQueens ==
    [name |-> "Saskatraz Queens",
     species |-> "Apis mellifera",
     description |-> "Selected for mite tolerance and productivity. Marked, mated queen ready to introduce.",
     price |-> 42,
     image |-> "https://images.unsplash.com/photo-1510877073473-6d4545e9c7e1?q=80&w=1200&auto=format&fit=crop",
     in_stock |-> TRUE]

BumblebeeColony ==
    [name |-> "Native Bumblebee Colony",
     species |-> "Bombus impatiens",
     description |-> "Excellent greenhouse pollinators. Complete colony with queen and workers.",
     price |-> 299,
     image |-> "https://images.unsplash.com/photo-1461354464878-ad92f492a5a0?q=80&w=1200&auto=format&fit=crop",
     in_stock |-> FALSE]

\* Mutant: the list without its last entry.
defaults_ThreeOnly == <<ItalianNucleus, CarniolanPackage, SaskatrazQueens>>

\* defaults = [...]
defaults == <<ItalianNucleus, CarniolanPackage, SaskatrazQueens, BumblebeeColony>>

\* Product payloads the clients post: one that satisfies the schema, one with
\* an empty name and one with a negative price.
ProductInputs ==
    { [name |-> n, species |-> "Apis mellifera buckfast",
       description |-> "Buckfast queen, marked and mated.",
       price |-> p, image |-> "https://example.org/buckfast.jpg",
       in_stock |-> TRUE] :
      n \in {"", "Buckfast Queens"}, p \in {-1, 30} }

\* product_id strings the clients send: the string form of the second
\* identifier the store hands out (some product's, or nobody's while fewer
\* than two documents are stored), a string one character short, and a
\* string of the right length holding a character that is no hex digit.
BadLengthId == ToHex(1, OidLen - 1)

BadCharsetId == [StrOfObjectId(1) EXCEPT ![1] = "z"]

ProductIdStrings == {StrOfObjectId(2), BadLengthId, BadCharsetId}

OrderItems == [product_id : ProductIdStrings, quantity : {1}]

OrderInputs ==
    { [items |-> s] : s \in UNION { [1..n -> OrderItems] : n \in 0..MaxItems } }

NoInput == [items |-> <<>>]

(* ------------------------------ schemas -------------------------------- *)

\* schemas.BeeProduct: name is non-empty text, price is non-negative.
ValidBeeProduct(p) == p.name # "" /\ p.price >= 0

\* Mutant: the schema without the non-empty constraint on items.
ValidOrder_AnyLength(o) == \A k \in 1..Len(o.items) : o.items[k].quantity >= 1

\* schemas.Order: items is non-empty, every quantity is at least 1.
ValidOrder(o) ==
    /\ Len(o.items) >= 1
    /\ \A k \in 1..Len(o.items) : o.items[k].quantity >= 1

(* --------------------------- store adapter ----------------------------- *)

Collections == {"beeproduct", "order"}

\* db[collection].count_documents({})
CountDocuments(coll) == Len(store[coll])

\* db[collection].find_one({"_id": oid}): TRUE when a document matches.
FindOne(coll, oid) == \E k \in 1..Len(store[coll]) : store[coll][k].id = oid

\* database.create_document: the collection after the insert of data under a
\* fresh identifier.
InsertedInto(coll, data) ==
    [store EXCEPT ![coll] = Append(@, [id |-> nextOid, data |-> data])]

\* database.get_documents: every document of the collection, in store order.
GetDocuments(coll) == store[coll]

(* ------------------------------ responses ------------------------------ *)

NoId == <<>>

Body(message, count, id, products) ==
    [message |-> message, count |-> count, id |-> id, products |-> products]

NoBody == Body("", 0, NoId, <<>>)

Response(status, body) == [status |-> status, body |-> body]

NoResponse == Response(0, NoBody)

\* raise HTTPException(status_code, detail) with detail = f"{text}{id}"
HTTPException(status, text, id) == Response(status, Body(text, 0, id, <<>>))

\* An exception no handler catches: the framework answers 500.
InternalServerError == Response(500, Body("Internal Server Error", 0, NoId, <<>>))

\* A payload the schema rejects.
ValidationError == Response(400, Body("ValidationError", 0, NoId, <<>>))

(* ------------------------------ requests ------------------------------- *)

\* A request: the handler it runs (op), where the handler stands (pc), its
\* payload (input), the handler's locals count, i and inserted, and its
\* response (resp).  wrote and failed keep the record of its store writes:
\* how many went through, and which of its writes the store refused.
Idle == [op |-> "none", pc |-> "idle", input |-> NoInput, count |-> 0, i |-> 0,
         inserted |-> 0, wrote |-> 0, failed |-> {}, resp |-> NoResponse]

Init ==
    /\ dbConfigured \in BOOLEAN
    /\ store = [c \in Collections |-> <<>>]
    /\ nextOid = 1
    /\ req = [r \in Reqs |-> Idle]

\* The server takes the requests in the order the slots are numbered.
CanReceive(r) ==
    /\ req[r].pc = "idle"
    /\ \A q \in Reqs : q < r => req[q].pc # "idle"

Finish(r, rec, resp) ==
    req' = [req EXCEPT ![r] = [rec EXCEPT !.pc = "done", !.resp = resp]]

\* database.create_document raises when the store handle is missing or the
\* store refuses the write (ok = FALSE).
CreateDocumentRaises(ok) == ~dbConfigured \/ ~ok

\* The outcomes of a write to a store that accepts every write, and to one
\* that may refuse any.
Reliable == {TRUE}

Flaky == BOOLEAN

(* --------------------------- seed_products ----------------------------- *)

\* Mutant: the comparison of the guard turned around.
AlreadySeeded_Flipped(count) == count < 0

\* Mutant: only a full catalog counts as seeded.
AlreadySeeded_OnlyWhenFull(count) == count >= 4

\* if count > 0: return "Products already seeded"
AlreadySeeded(count) == count > 0

\* Mutant: the truth test of the returned identifier turned around.
Counted_Negated(inserted_id) == IF inserted_id = NoId THEN 1 ELSE 0

\* if inserted_id: inserted += 1
Counted(inserted_id) == IF inserted_id # NoId THEN 1 ELSE 0

\* Entry of seed_products up to the return or the start of the loop: the
\* handle check and the count of the product collection.
SeedProducts(r) ==
    /\ CanReceive(r)
    /\ LET rec == [Idle EXCEPT !.op = "seed_products"]
           count == CountDocuments("beeproduct")
       IN  IF ~dbConfigured
           THEN Finish(r, rec, HTTPException(500, "Database not configured", NoId))
           ELSE IF AlreadySeeded(count)
           THEN Finish(r, [rec EXCEPT !.count = count],
                       Response(200, Body("Products already seeded", count, NoId, <<>>)))
           ELSE req' = [req EXCEPT ![r] = [rec EXCEPT !.pc = "loop", !.count = count, !.i = 1]]
    /\ UNCHANGED <<dbConfigured, store, nextOid>>

\* One iteration of the loop over defaults; the last one returns.
SeedInsert(r, outcomes) ==
    /\ req[r].op = "seed_products"
    /\ req[r].pc = "loop"
    /\ \E ok \in outcomes :
         LET i == req[r].i
             raised == CreateDocumentRaises(ok)
             inserted_id == StrOfObjectId(nextOid)
             rec == IF raised
                    THEN [req[r] EXCEPT !.failed = @ \cup {i}]
                    ELSE [req[r] EXCEPT !.inserted = @ + Counted(inserted_id),
                                        !.wrote = @ + 1]
         IN  /\ store' = IF raised THEN store ELSE InsertedInto("beeproduct", defaults[i])
             /\ nextOid' = IF raised THEN nextOid ELSE nextOid + 1
             /\ IF i = Len(defaults)
                THEN Finish(r, rec, Response(200, Body("Seeded products", rec.inserted, NoId, <<>>)))
                ELSE req' = [req EXCEPT ![r] = [rec EXCEPT !.i = i + 1]]
    /\ UNCHANGED dbConfigured

(* ------------------- create_product, list_products --------------------- *)

CreateProduct(r, outcomes) ==
    /\ CanReceive(r)
    /\ \E p \in ProductInputs, ok \in outcomes :
         LET rec == [Idle EXCEPT !.op = "create_product"]
         IN  IF ~ValidBeeProduct(p)
             THEN /\ Finish(r, rec, ValidationError)
                  /\ UNCHANGED <<store, nextOid>>
             ELSE IF CreateDocumentRaises(ok)
             THEN /\ Finish(r, rec, InternalServerError)
                  /\ UNCHANGED <<store, nextOid>>
             ELSE /\ store' = InsertedInto("beeproduct", p)
                  /\ nextOid' = nextOid + 1
                  /\ Finish(r, [rec EXCEPT !.wrote = 1],
                            Response(201, Body("", 0, StrOfObjectId(nextOid), <<>>)))
    /\ UNCHANGED dbConfigured

\* The documents with their identifiers turned into strings.
Listed(docs) == [k \in 1..Len(docs) |-> [docs[k] EXCEPT !.id = StrOfObjectId(@)]]

ListProducts(r) ==
    /\ CanReceive(r)
    /\ LET rec == [Idle EXCEPT !.op = "list_products"]
       IN  IF ~dbConfigured
           THEN Finish(r, rec, InternalServerError)
           ELSE Finish(r, rec, Response(200, Body("", 0, NoId, Listed(GetDocuments("beeproduct")))))
    /\ UNCHANGED <<dbConfigured, store, nextOid>>

(* ----------------------------- create_order ---------------------------- *)

Raised(class, resp) == [class |-> class, resp |-> resp]

NoException == Raised("none", NoResponse)

\* Mutant: the try block without the test of the lookup's result.
TryFindProduct_NoNoneTest(item) ==
    IF ~dbConfigured
    THEN Raised("TypeError", InternalServerError)
    ELSE IF ~ObjectIdValid(item.product_id)
    THEN Raised("InvalidId", InternalServerError)
    ELSE NoException

\* The body of the try block for one item: the exception it raises, if any.
\* db["beeproduct"] is evaluated first and raises TypeError on a missing
\* handle; ObjectId(...) raises InvalidId; a missing product raises the
\* HTTPException of line 151.
TryFindProduct(item) ==
    IF ~dbConfigured
    THEN Raised("TypeError", InternalServerError)
    ELSE IF ~ObjectIdValid(item.product_id)
    THEN Raised("InvalidId", InternalServerError)
    ELSE IF ~FindOne("beeproduct", ObjectId(item.product_id))
    THEN Raised("HTTPException", HTTPException(400, "Product not found: ", item.product_id))
    ELSE NoException

\* Mutant: the handler catches the HTTPException only.
ExceptException_OnlyHTTP(class) == class = "HTTPException"

\* except Exception: TypeError, InvalidId and HTTPException all derive from
\* Exception.
ExceptException(class) == class \in {"TypeError", "InvalidId", "HTTPException"}

\* Mutant: the order written to the product collection.
OrderCollection_Products == "beeproduct"

\* The collection create_order writes to.
OrderCollection == "order"

\* Entry of create_order: the schema check of the payload.
CreateOrder(r) ==
    /\ CanReceive(r)
    /\ Cardinality({q \in Reqs : req[q].op = "create_order"}) < MaxOrders
    /\ \E o \in OrderInputs :
         LET rec == [Idle EXCEPT !.op = "create_order", !.input = o]
         IN  IF ~ValidOrder(o)
             THEN Finish(r, rec, ValidationError)
             ELSE IF Len(o.items) = 0
             THEN req' = [req EXCEPT ![r] = [rec EXCEPT !.pc = "insert"]]
             ELSE req' = [req EXCEPT ![r] = [rec EXCEPT !.pc = "check", !.i = 1]]
    /\ UNCHANGED <<dbConfigured, store, nextOid>>

\* One iteration of the loop over order.items.
OrderCheckItem(r) ==
    /\ req[r].op = "create_order"
    /\ req[r].pc = "check"
    /\ LET i == req[r].i
           item == req[r].input.items[i]
           exc == TryFindProduct(item)
       IN  IF exc.class # "none" /\ ExceptException(exc.class)
           THEN Finish(r, req[r], HTTPException(400, "Invalid product id: ", item.product_id))
           ELSE IF exc.class # "none"
           THEN Finish(r, req[r], exc.resp)
           ELSE IF i = Len(req[r].input.items)
           THEN req' = [req EXCEPT ![r].pc = "insert"]
           ELSE req' = [req EXCEPT ![r].i = i + 1]
    /\ UNCHANGED <<dbConfigured, store, nextOid>>

\* create_document("order", order) and the return.
OrderInsert(r, outcomes) ==
    /\ req[r].op = "create_order"
    /\ req[r].pc = "insert"
    /\ \E ok \in outcomes :
         IF CreateDocumentRaises(ok)
         THEN /\ Finish(r, req[r], InternalServerError)
              /\ UNCHANGED <<store, nextOid>>
         ELSE /\ store' = InsertedInto(OrderCollection, req[r].input)
              /\ nextOid' = nextOid + 1
              /\ Finish(r, [req[r] EXCEPT !.wrote = 1],
                        Response(201, Body("", 0, StrOfObjectId(nextOid), <<>>)))
    /\ UNCHANGED dbConfigured

(* --------------------------- specifications ---------------------------- *)

\* Concurrent requests over a store that accepts every write.
Next ==
    \E r \in Reqs :
        \/ SeedProducts(r)
        \/ SeedInsert(r, Reliable)
        \/ CreateProduct(r, Reliable)
        \/ ListProducts(r)
        \/ CreateOrder(r)
        \/ OrderCheckItem(r)
        \/ OrderInsert(r, Reliable)

Spec == Init /\ [][Next]_vars

\* One request at a time, a request being received only when none is in
\* flight, over a store that may refuse any write.
NoneInFlight == \A q \in Reqs : req[q].pc \in {"idle", "done"}

SeqNext ==
    \E r \in Reqs :
        \/ NoneInFlight /\ SeedProducts(r)
        \/ SeedInsert(r, Flaky)
        \/ NoneInFlight /\ CreateProduct(r, Flaky)
        \/ NoneInFlight /\ ListProducts(r)
        \/ NoneInFlight /\ CreateOrder(r)
        \/ OrderCheckItem(r)
        \/ OrderInsert(r, Flaky)

SeqSpec == Init /\ [][SeqNext]_vars

(* ------------------------------ properties ----------------------------- *)

Products == store["beeproduct"]

Orders == store["order"]

Done(r) == req[r].pc = "done"

IsSeed(r) == req[r].op = "seed_products"

IsCreateProduct(r) == req[r].op = "create_product"

IsCreateOrder(r) == req[r].op = "create_order"

Message(r) == req[r].resp.body.message

Status(r) == req[r].resp.status

\* A seed request that found the collection empty and went into the loop.
Seeding(r) == IsSeed(r) /\ req[r].pc \in {"loop", "done"} /\ req[r].count = 0 /\ dbConfigured

\* A seed request that went through the loop with no write refused.
SeededAll(r) == Seeding(r) /\ Done(r) /\ req[r].failed = {}

IsPrefix(s, t) == Len(s) <= Len(t) /\ SubSeq(t, 1, Len(s)) = s

\* How many stored products carry the name of the k-th default.
Copies(k) == Cardinality({j \in 1..Len(Products) : Products[j].data.name = defaults[k].name})

WellFormed(o, k) == ObjectIdValid(o.items[k].product_id)

Stocked(o, k) == WellFormed(o, k) /\ FindOne("beeproduct", ObjectId(o.items[k].product_id))

HasMalformed(o) == \E k \in 1..Len(o.items) : ~WellFormed(o, k)

FirstMalformed(o) ==
    CHOOSE m \in 1..Len(o.items) :
        ~WellFormed(o, m) /\ \A j \in 1..(m - 1) : WellFormed(o, j)

\* C1: under one request at a time, a seed_products call that finds the
\* product collection empty and has none of its writes refused inserts
\* exactly 4 products and returns count = 4; every seed_products call after
\* it inserts nothing and reports the count of the collection at that time,
\* which is 4 when the call comes right after the first.
C1_SeedOnceThenNoOp ==
    \A r1 \in Reqs :
        SeededAll(r1) =>
            /\ Status(r1) = 200
            /\ Message(r1) = "Seeded products"
            /\ req[r1].resp.body.count = 4
            /\ req[r1].wrote = 4
            /\ \A r2 \in Reqs :
                (r2 > r1 /\ IsSeed(r2) /\ req[r2].pc # "idle") =>
                    /\ Done(r2)
                    /\ req[r2].wrote = 0
                    /\ Status(r2) = 200
                    /\ Message(r2) = "Products already seeded"
                    /\ req[r2].resp.body.count =
                         4 + Cardinality({q \in Reqs : /\ r1 < q /\ q < r2
                                                       /\ IsCreateProduct(q)
                                                       /\ req[q].wrote = 1})
                    /\ (r2 = r1 + 1 => req[r2].resp.body.count = 4)

C1_Witness ==
    \E r1 \in Reqs :
        /\ r1 + 1 \in Reqs
        /\ SeededAll(r1)
        /\ req[r1].resp.body.count = 4
        /\ IsSeed(r1 + 1) /\ Done(r1 + 1)
        /\ Message(r1 + 1) = "Products already seeded"
        /\ req[r1 + 1].resp.body.count = 4
        /\ Len(Products) = 4

\* C2: a create_order request that stops at an item whose product_id is
\* well formed (so the item can only have failed for want of a product) is
\* answered 400 "Product not found: <id>" and persists no order.
C2_ProductNotFound ==
    \A r \in Reqs :
        (/\ IsCreateOrder(r) /\ Done(r) /\ dbConfigured
         /\ Status(r) = 400 /\ ValidOrder(req[r].input)
         /\ WellFormed(req[r].input, req[r].i)) =>
            /\ Message(r) = "Product not found: "
            /\ req[r].resp.body.id = req[r].input.items[req[r].i].product_id
            /\ req[r].wrote = 0

\* C3: a create_order request one of whose product_id values cannot be parsed
\* is answered 400 and persists no order; the items before the one the answer
\* names all passed the check, the named item is the first malformed one or
\* an earlier one, and when it is the malformed one the answer is
\* "Invalid product id: <id>" with that item's id.  No stored order holds a
\* malformed product_id.
C3_InvalidProductId ==
    /\ \A r \in Reqs :
        (IsCreateOrder(r) /\ Done(r) /\ ValidOrder(req[r].input) /\ HasMalformed(req[r].input)) =>
            LET o == req[r].input
                i == req[r].i
                m == FirstMalformed(o)
            IN  /\ Status(r) = 400
                /\ req[r].wrote = 0
                /\ i \in 1..m
                /\ req[r].resp.body.id = o.items[i].product_id
                /\ \A j \in 1..(i - 1) : Stocked(o, j)
                /\ (i = m => Message(r) = "Invalid product id: ")
    /\ \A k \in 1..Len(Orders) : ~HasMalformed(Orders[k].data)

C3_Witness ==
    \E r \in Reqs :
        /\ IsCreateOrder(r) /\ Done(r)
        /\ Len(req[r].input.items) = 2
        /\ Stocked(req[r].input, 1)
        /\ req[r].input.items[2].product_id = BadCharsetId
        /\ req[r].i = 2
        /\ req[r].resp = HTTPException(400, "Invalid product id: ", BadCharsetId)
        /\ Len(Orders) = 0

\* C4: a create_order request with an empty items sequence is answered with
\* the validation error and persists no order, whatever the store holds; no
\* stored order has an empty items sequence.
C4_EmptyItemsRejected ==
    /\ \A r \in Reqs :
        (IsCreateOrder(r) /\ req[r].input.items = <<>>) =>
            /\ Done(r)
            /\ req[r].resp = ValidationError
            /\ req[r].wrote = 0
    /\ \A k \in 1..Len(Orders) : Orders[k].data.items # <<>>

C4_Witness ==
    \E r \in Reqs :
        /\ IsCreateOrder(r) /\ Done(r)
        /\ req[r].input.items = <<>>
        /\ req[r].resp = ValidationError
        /\ Len(Products) > 0

\* C5: with the store handle not configured, every request whose payload
\* passes the schema is answered with a 5xx status, and nothing is written.
C5_StoreUnavailableIs5xx ==
    ~dbConfigured =>
        /\ \A r \in Reqs :
            (Done(r) /\ req[r].resp # ValidationError) =>
                /\ Status(r) \in 500..599
                /\ req[r].wrote = 0
        /\ Len(Products) = 0
        /\ Len(Orders) = 0

\* C6: every stored order has every item's product_id naming a stored
\* product; a create_order request reaches its insert only with every item
\* checked, writes at most one order, and writes none unless it is answered
\* 201.
C6_OrdersReferenceProducts ==
    /\ \A k \in 1..Len(Orders) :
        /\ Len(Orders[k].data.items) >= 1
        /\ \A j \in 1..Len(Orders[k].data.items) : Stocked(Orders[k].data, j)
    /\ \A r \in Reqs :
        IsCreateOrder(r) =>
            /\ (req[r].pc = "insert" \/ Status(r) = 201) =>
                   \A j \in 1..Len(req[r].input.items) : Stocked(req[r].input, j)
            /\ req[r].wrote = (IF Status(r) = 201 THEN 1 ELSE 0)
    /\ Len(Orders) = Cardinality({r \in Reqs : IsCreateOrder(r) /\ req[r].wrote = 1})

\* The race of the check with a concurrent seed: the order request was
\* received first, the seed request wrote the product the order names while
\* the order request was in flight, and the order was stored.
C6_Witness ==
    /\ Len(Orders) = 1
    /\ \E r \in Reqs, q \in Reqs :
        /\ IsCreateOrder(r) /\ Status(r) = 201
        /\ Seeding(q) /\ q > r

\* C7: no step changes or removes a stored product (the product collection
\* only grows at its end), and a step of a create_order or list_products
\* request leaves the product collection as it was.
C7_ProductsFrame ==
    [][/\ IsPrefix(Products, store'["beeproduct"])
       /\ \A r \in Reqs :
            (req'[r] # req[r] /\ req'[r].op \in {"create_order", "list_products"}) =>
                store'["beeproduct"] = Products]_vars

C7_Witness ==
    \E r \in Reqs, q \in Reqs :
        /\ SeededAll(r) /\ req[r].wrote = 4
        /\ IsCreateOrder(q) /\ Status(q) = 201 /\ q > r
        /\ Len(Products) = 4
        /\ \A k \in 1..4 : Products[k].data = defaults[k]

\* C8: two seed_products requests that both found the collection empty and
\* had no write refused both report count = 4, and the collection then holds
\* every default at least twice, 8 products or more.
C8_ConcurrentSeedsDuplicate ==
    \A r1 \in Reqs, r2 \in Reqs :
        (r1 # r2 /\ SeededAll(r1) /\ SeededAll(r2)) =>
            /\ req[r1].resp.body.count = 4
            /\ req[r2].resp.body.count = 4
            /\ Len(Products) >= 8
            /\ \A k \in 1..4 : Copies(k) >= 2

C8_Witness ==
    \E r1 \in Reqs, r2 \in Reqs :
        /\ r1 # r2 /\ SeededAll(r1) /\ SeededAll(r2)
        /\ req[r1].resp.body.count = 4
        /\ req[r2].resp.body.count = 4
        /\ Len(Products) = 8
        /\ \A k \in 1..4 : Copies(k) = 2

\* C9: a seed_products request that found the collection empty goes through
\* all four defaults whichever writes are refused, is answered 200, and
\* counts exactly the writes that went through: its count is 4 less the
\* refused writes and is the number of products it added; the collection
\* holds what the requests added, nothing taken back.
C9_SeedBestEffort ==
    /\ \A r \in Reqs :
        Seeding(r) =>
            /\ req[r].inserted = req[r].wrote
            /\ req[r].pc = "loop" =>
                /\ req[r].i \in 1..4
                /\ req[r].failed \subseteq 1..(req[r].i - 1)
                /\ req[r].wrote = (req[r].i - 1) - Cardinality(req[r].failed)
            /\ Done(r) =>
                /\ req[r].i = 4
                /\ req[r].failed \subseteq 1..4
                /\ Status(r) = 200
                /\ Message(r) = "Seeded products"
                /\ req[r].resp.body.count = 4 - Cardinality(req[r].failed)
                /\ req[r].resp.body.count = req[r].wrote
    /\ \A k \in 1..4 :
        Copies(k) = Cardinality({r \in Reqs : /\ Seeding(r)
                                              /\ Done(r) \/ k < req[r].i
                                              /\ k \notin req[r].failed})

C9_Witness ==
    \E r \in Reqs :
        /\ Seeding(r) /\ Done(r)
        /\ req[r].failed = {2}
        /\ req[r].resp = Response(200, Body("Seeded products", 3, NoId, <<>>))
        /\ Len(Products) = 3
        /\ Products[1].data = defaults[1]
        /\ Products[2].data = defaults[3]
        /\ Products[3].data = defaults[4]

\* C10: a seed_products call received while the product collection holds a
\* product returns at once and writes nothing; and while no seed request is
\* inside its loop and the collection holds a product, no step of a seed
\* request adds a product, so a partial seed stays partial.
C10_NoLaterSeedWrites ==
    [][/\ \A r \in Reqs :
            (req[r].pc = "idle" /\ req'[r].op = "seed_products" /\ Len(Products) >= 1) =>
                /\ req'[r].pc = "done"
                /\ req'[r].resp = Response(200, Body("Products already seeded", Len(Products), NoId, <<>>))
                /\ store' = store
       /\ ((\A r \in Reqs : ~(IsSeed(r) /\ req[r].pc = "loop")) /\ Len(Products) >= 1) =>
            \A r \in Reqs :
                req'[r].op = "seed_products" =>
                    /\ req'[r].pc # "loop"
                    /\ req'[r].wrote = req[r].wrote]_vars

C10_Witness ==
    \E r1 \in Reqs, r2 \in Reqs :
        /\ r1 < r2
        /\ Seeding(r1) /\ Done(r1) /\ req[r1].wrote \in 1..3
        /\ IsSeed(r2) /\ Done(r2)
        /\ Message(r2) = "Products already seeded"
        /\ req[r2].resp.body.count = req[r1].wrote
        /\ Len(Products) = req[r1].wrote

====
